---- MODULE Spec2Model ----
(***************************************************************************)
(* Model of ext/src/ruby_api/store.rs: the Wasmtime::Store wrapper, its    *)
(* StoreData payload record, the HostException slot and the error          *)
(* classification done by StoreContextValue::handle_wasm_error.            *)
(***************************************************************************)
EXTENDS Integers, Sequences, FiniteSets, TLC

(* ------------------------------ bounds --------------------------------- *)

\* number of distinct Ruby values (besides nil) the host passes around
NumValues == 2
\* number of distinct Ruby exception objects a host callback can raise
NumExceptions == 2
\* number of distinct WasiCtxBuilder configurations
NumBuilders == 2
\* number of Store#retain calls made by callers after construction
MaxRetain == 2

(* ------------------------------ values --------------------------------- *)

\* magnus QNIL, the Ruby nil value
QNIL == 0

\* Ruby values the host can hand to the store (nil included)
Values == 0..NumValues

\* Ruby exception objects
Exceptions == 1..NumExceptions

\* the Engine handle given to Store.new
Engine == "engine"

\* Result::Ok(v)
Ok(v) == [ok |-> TRUE, val |-> v]

\* Result::Err(e)
Err(e) == [ok |-> FALSE, err |-> e]

\* Option::None
None == [some |-> FALSE]

\* Option::Some(v)
Some(v) == [some |-> TRUE, val |-> v]

\* BoxValue::new(e): the exception boxed so that the GC keeps it
BoxValueNew(e) == [boxed |-> e]

\* BoxValue::to_owned: the value inside the box
BoxToOwned(b) == b.boxed

\* magnus Error::from(Exception): the Error that re-raises the exception
ErrorFromException(e) == [kind |-> "exception", exc |-> e]

(* --------------------------- HostException ----------------------------- *)

\* HostException::default(): the empty slot
HostExceptionDefault == None

\* take that reads the slot without clearing it
HostExceptionTake_Peek(slot) ==
    [slot |-> slot,
     out  |-> IF slot.some THEN Some(BoxToOwned(slot.val)) ELSE None]

\* HostException::take: std::mem::take leaves None, the old content is unboxed
HostExceptionTake(slot) ==
    [slot |-> None,
     out  |-> IF slot.some THEN Some(BoxToOwned(slot.val)) ELSE None]

\* hold that keeps an exception already pending (first write wins)
HostExceptionHold_KeepFirst(slot, e) ==
    IF slot.some THEN slot ELSE Some(BoxValueNew(e))

\* HostException::hold: overwrite the slot with the boxed exception
HostExceptionHold(slot, e) == Some(BoxValueNew(e))

(* ----------------------------- StoreData ------------------------------- *)

\* StoreData::take_last_error: take the slot, convert the exception to an Error
TakeLastErrorOf(sd) ==
    LET t == HostExceptionTake(sd.host_exception)
    IN  [sd  |-> [sd EXCEPT !.host_exception = t.slot],
         out |-> IF t.out.some THEN Some(ErrorFromException(t.out.val)) ELSE None]

\* StoreData::user_data
UserDataOf(sd) == sd.user_data

\* StoreData::has_wasi_ctx
HasWasiCtxOf(sd) == sd.wasi.some

\* wasi_ctx_mut that hands out a fresh default context when none is installed
WasiCtxMutOf_Default(sd) ==
    [panic |-> FALSE, ctx |-> IF sd.wasi.some THEN sd.wasi.val ELSE [ctx_of |-> 0]]

\* StoreData::wasi_ctx_mut: the installed context, or the panic of expect()
WasiCtxMutOf(sd) ==
    IF sd.wasi.some
    THEN [panic |-> FALSE, ctx |-> sd.wasi.val]
    ELSE [panic |-> TRUE, msg |-> "Store must have a WASI context"]

(* ------------------------------- Store --------------------------------- *)

\* retain that skips a value refs already holds
StoreRetain_Dedup(rs, value) ==
    IF \E i \in DOMAIN rs : rs[i] = value THEN rs ELSE Append(rs, value)

\* retain that inserts at the front of refs
StoreRetain_Prepend(rs, value) == <<value>> \o rs

\* Store::retain: push the value on refs
StoreRetain(rs, value) == Append(rs, value)

\* argument lists accepted by scan_args: one required Engine, one optional Value
NewArgs == {<<Engine>>} \cup {<<Engine, v>> : v \in Values}

\* new that ignores the optional payload argument
StoreNew_DropPayload(args) ==
    [inner |-> [user_data |-> QNIL, host_exception |-> None, wasi |-> None],
     refs  |-> <<QNIL>>]

\* new that forgets to retain the payload
StoreNew_NoRetain(args) ==
    [inner |-> [user_data      |-> IF Len(args) >= 2 THEN args[2] ELSE QNIL,
                host_exception |-> None,
                wasi           |-> None],
     refs  |-> <<>>]

\* Store::new: build StoreData, wrap it, retain the payload
StoreNew(args) ==
    LET user_data  == IF Len(args) >= 2 THEN args[2] ELSE QNIL
        store_data == [user_data      |-> user_data,
                       host_exception |-> HostExceptionDefault,
                       wasi           |-> None]
    IN  [inner |-> store_data, refs |-> StoreRetain(<<>>, user_data)]

\* Store::data: the payload read through the shared context
StoreData(sd) == UserDataOf(sd)

\* magnus::gc::mark applied to one value: the value is visited
GcMark(v) == v

\* refs.borrow().iter().for_each(magnus::gc::mark): the visits, first to last
RECURSIVE IterForEach(_)
IterForEach(rs) ==
    IF rs = <<>> THEN <<>> ELSE <<GcMark(Head(rs))>> \o IterForEach(Tail(rs))

\* mark that stops one element short of the end of refs
StoreMark_SkipLast(rs) == SubSeq(rs, 1, Len(rs) - 1)

\* DataTypeFunctions::mark for Store: visit every element of refs, in order
StoreMark(rs) == IterForEach(rs)

\* WasiCtxBuilder handles: a configuration and whether it can be materialized
Builders == [id : 1..NumBuilders, fails : BOOLEAN]

\* WasiCtxBuilder::build_context: the context of this configuration, or its error
BuildContext(b) ==
    IF b.fails THEN Err([kind |-> "build", builder |-> b.id])
               ELSE Ok([ctx_of |-> b.id])

\* the error of WrappedStruct::get / Caller::context_mut on an invalid wrapper
AccessError(variant) == [kind |-> "access", variant |-> variant]

\* configure_wasi that reports success without installing the context
StoreConfigureWasi_NoInstall(sd, self_valid, wasi_config) ==
    LET built == BuildContext(wasi_config)
    IN  IF ~built.ok THEN [sd |-> sd, out |-> Err(built.err)]
        ELSE IF ~self_valid THEN [sd |-> sd, out |-> Err(AccessError("Store"))]
        ELSE [sd |-> sd, out |-> Ok("self")]

\* configure_wasi that writes the field before looking at the build result
StoreConfigureWasi_ClearOnFailure(sd, self_valid, wasi_config) ==
    LET built == BuildContext(wasi_config)
    IN  IF ~self_valid THEN [sd |-> sd, out |-> Err(AccessError("Store"))]
        ELSE IF ~built.ok THEN [sd |-> [sd EXCEPT !.wasi = None], out |-> Err(built.err)]
        ELSE [sd |-> [sd EXCEPT !.wasi = Some(built.val)], out |-> Ok("self")]

\* configure_wasi that keeps a context installed earlier
StoreConfigureWasi_KeepFirst(sd, self_valid, wasi_config) ==
    LET built == BuildContext(wasi_config)
    IN  IF ~built.ok THEN [sd |-> sd, out |-> Err(built.err)]
        ELSE IF ~self_valid THEN [sd |-> sd, out |-> Err(AccessError("Store"))]
        ELSE IF sd.wasi.some THEN [sd |-> sd, out |-> Ok("self")]
        ELSE [sd |-> [sd EXCEPT !.wasi = Some(built.val)], out |-> Ok("self")]

\* Store::configure_wasi: the assigned value (build_context()?) is evaluated
\* before the assignee (rb_self.get()?), then the field is written
StoreConfigureWasi(sd, self_valid, wasi_config) ==
    LET built == BuildContext(wasi_config)
    IN  IF ~built.ok THEN [sd |-> sd, out |-> Err(built.err)]
        ELSE IF ~self_valid THEN [sd |-> sd, out |-> Err(AccessError("Store"))]
        ELSE [sd |-> [sd EXCEPT !.wasi = Some(built.val)], out |-> Ok("self")]

(* ------------------------- StoreContextValue --------------------------- *)

\* a StoreContextValue: which wrapper it holds and whether that wrapper is valid
StoreContextValues == [variant : {"Store", "Caller"}, valid : BOOLEAN]

\* StoreContextValue::context_mut: the exclusive view, or the wrapper's error
ContextMut(scv) == IF scv.valid THEN Ok("context") ELSE Err(AccessError(scv.variant))

\* low-level anyhow errors: what downcast_ref::<I32Exit> and the downcast to a
\* wasmtime trap find in the error chain, and the error's Display text: two
\* plain errors, a trap, an exit request, and an exit request whose chain also
\* holds a trap
LowErrors ==
    {[exit |-> None,    trap |-> None,                desc |-> "unknown import"],
     [exit |-> None,    trap |-> None,                desc |-> "error while executing"],
     [exit |-> None,    trap |-> Some("unreachable"), desc |-> "error while executing"],
     [exit |-> Some(0), trap |-> None,                desc |-> "error while executing"],
     [exit |-> Some(7), trap |-> Some("unreachable"), desc |-> "error while executing"]}

\* error.downcast_ref::<I32Exit>()
DowncastI32Exit(error) == error.exit

\* Trap::try_from(anyhow::Error): Ok(trap) when the error is a trap, else the error back
TrapTryFrom(error) == IF error.trap.some THEN Ok(error.trap.val) ELSE Err(error)

\* wasi_exit_error().new_instance((exit.0,)): the WasiExit error with the code
WasiExitError(code) == [kind |-> "exit", code |-> code]

\* Trap into Error: the host-level trap error
TrapInto(trap) == [kind |-> "trap", trap |-> trap]

\* format!("{}", e): the Display text of the low-level error
Display(error) == error.desc

\* error!(..): the generic Wasmtime::Error with a message
GenericError(msg) == [kind |-> "generic", msg |-> msg]

\* handle_wasm_error that classifies the low-level error before looking at the slot
HandleWasmErrorOf_VmFirst(sd, scv, error) ==
    LET ctx == ContextMut(scv)
    IN  IF ~ctx.ok THEN [sd |-> sd, out |-> ctx.err]
        ELSE
          LET last == TakeLastErrorOf(sd)
          IN  [sd  |-> last.sd,
               out |-> IF error.exit.some THEN WasiExitError(error.exit.val)
                       ELSE IF error.trap.some THEN TrapInto(error.trap.val)
                       ELSE IF last.out.some THEN last.out.val
                       ELSE GenericError(Display(error))]

\* handle_wasm_error that tries the trap conversion before the exit downcast
HandleWasmErrorOf_TrapFirst(sd, scv, error) ==
    LET ctx == ContextMut(scv)
    IN  IF ~ctx.ok THEN [sd |-> sd, out |-> ctx.err]
        ELSE
          LET last == TakeLastErrorOf(sd)
          IN  [sd  |-> last.sd,
               out |-> IF last.out.some THEN last.out.val
                       ELSE IF error.trap.some THEN TrapInto(error.trap.val)
                       ELSE IF error.exit.some THEN WasiExitError(error.exit.val)
                       ELSE GenericError(Display(error))]

\* handle_wasm_error whose fallback drops the low-level error's text
HandleWasmErrorOf_NoText(sd, scv, error) ==
    LET ctx == ContextMut(scv)
    IN  IF ~ctx.ok THEN [sd |-> sd, out |-> ctx.err]
        ELSE
          LET last == TakeLastErrorOf(sd)
          IN  [sd  |-> last.sd,
               out |-> IF last.out.some THEN last.out.val
                       ELSE IF error.exit.some THEN WasiExitError(error.exit.val)
                       ELSE IF error.trap.some THEN TrapInto(error.trap.val)
                       ELSE GenericError("error")]

\* handle_wasm_error that takes the slot before asking for the context
HandleWasmErrorOf_TakeFirst(sd, scv, error) ==
    LET ctx  == ContextMut(scv)
        last == TakeLastErrorOf(sd)
    IN  IF ~ctx.ok THEN [sd |-> last.sd, out |-> ctx.err]
        ELSE [sd  |-> last.sd,
              out |-> IF last.out.some THEN last.out.val
                      ELSE IF error.exit.some THEN WasiExitError(error.exit.val)
                      ELSE IF error.trap.some THEN TrapInto(error.trap.val)
                      ELSE GenericError(Display(error))]

\* handle_wasm_error that tears the WASI context down on a process exit
HandleWasmErrorOf_DropWasiOnExit(sd, scv, error) ==
    LET ctx == ContextMut(scv)
    IN  IF ~ctx.ok THEN [sd |-> sd, out |-> ctx.err]
        ELSE
          LET last == TakeLastErrorOf(sd)
          IN  [sd  |-> IF ~last.out.some /\ error.exit.some
                       THEN [last.sd EXCEPT !.wasi = None] ELSE last.sd,
               out |-> IF last.out.some THEN last.out.val
                       ELSE IF error.exit.some THEN WasiExitError(error.exit.val)
                       ELSE IF error.trap.some THEN TrapInto(error.trap.val)
                       ELSE GenericError(Display(error))]

\* StoreContextValue::handle_wasm_error
HandleWasmErrorOf(sd, scv, error) ==
    LET ctx == ContextMut(scv)
    IN  IF ~ctx.ok THEN [sd |-> sd, out |-> ctx.err]
        ELSE
          LET last == TakeLastErrorOf(sd)
              exit == DowncastI32Exit(error)
              trap == TrapTryFrom(error)
          IN  [sd  |-> last.sd,
               out |-> IF last.out.some THEN last.out.val
                       ELSE IF exit.some THEN WasiExitError(exit.val)
                       ELSE IF trap.ok THEN TrapInto(trap.val)
                       ELSE GenericError(Display(trap.err))]

(* ------------------------------- state --------------------------------- *)

VARIABLES
    new_args,     \* the arguments Store.new was called with
    inner,        \* Store.inner: the StoreData owned by the wasmtime store
    refs,         \* Store.refs: the retained values
    retain_args,  \* the values callers passed to Store#retain, in call order
    last_op,      \* the last operation called on the store
    last_args,    \* the arguments of that call
    last_out      \* what that call returned

vars == <<new_args, inner, refs, retain_args, last_op, last_args, last_out>>

\* the state right after Store.new returned Ok(store)
Init ==
    \E args \in NewArgs :
        /\ new_args = args
        /\ inner = StoreNew(args).inner
        /\ refs = StoreNew(args).refs
        /\ retain_args = <<>>
        /\ last_op = "new"
        /\ last_args = <<>>
        /\ last_out = Ok("store")

\* Store#data
Data ==
    /\ last_op' = "data"
    /\ last_args' = <<>>
    /\ last_out' = StoreData(inner)
    /\ UNCHANGED <<new_args, inner, refs, retain_args>>

\* Store#retain(value), called by whoever captures a host value
Retain ==
    \E value \in Values :
        /\ Len(retain_args) < MaxRetain
        /\ refs' = StoreRetain(refs, value)
        /\ retain_args' = Append(retain_args, value)
        /\ last_op' = "retain"
        /\ last_args' = <<value>>
        /\ last_out' = Ok("unit")
        /\ UNCHANGED <<new_args, inner>>

\* the GC's mark phase calling DataTypeFunctions::mark
Mark ==
    /\ last_op' = "mark"
    /\ last_args' = <<>>
    /\ last_out' = StoreMark(refs)
    /\ UNCHANGED <<new_args, inner, refs, retain_args>>

\* Store#configure_wasi(wasi_config)
ConfigureWasi ==
    \E self_valid \in BOOLEAN, wasi_config \in Builders :
        LET r == StoreConfigureWasi(inner, self_valid, wasi_config)
        IN  /\ inner' = r.sd
            /\ last_op' = "configure_wasi"
            /\ last_args' = <<self_valid, wasi_config>>
            /\ last_out' = r.out
            /\ UNCHANGED <<new_args, refs, retain_args>>

\* a host callback stashing its exception: store_data.exception().hold(e)
Hold ==
    \E e \in Exceptions :
        /\ inner' = [inner EXCEPT !.host_exception = HostExceptionHold(@, e)]
        /\ last_op' = "hold"
        /\ last_args' = <<e>>
        /\ last_out' = Ok("unit")
        /\ UNCHANGED <<new_args, refs, retain_args>>

\* store_data.exception().take()
Take ==
    LET t == HostExceptionTake(inner.host_exception)
    IN  /\ inner' = [inner EXCEPT !.host_exception = t.slot]
        /\ last_op' = "take"
        /\ last_args' = <<>>
        /\ last_out' = t.out
        /\ UNCHANGED <<new_args, refs, retain_args>>

\* store_data.take_last_error()
TakeLastError ==
    LET t == TakeLastErrorOf(inner)
    IN  /\ inner' = t.sd
        /\ last_op' = "take_last_error"
        /\ last_args' = <<>>
        /\ last_out' = t.out
        /\ UNCHANGED <<new_args, refs, retain_args>>

\* store_data.wasi_ctx_mut(), called by the WASI dispatch layer
WasiCtxMut ==
    /\ last_op' = "wasi_ctx_mut"
    /\ last_args' = <<>>
    /\ last_out' = WasiCtxMutOf(inner)
    /\ UNCHANGED <<new_args, inner, refs, retain_args>>

\* StoreContextValue::handle_wasm_error(error) after a failed VM call
HandleWasmError ==
    \E scv \in StoreContextValues, error \in LowErrors :
        LET r == HandleWasmErrorOf(inner, scv, error)
        IN  /\ inner' = r.sd
            /\ last_op' = "handle_wasm_error"
            /\ last_args' = <<scv, error>>
            /\ last_out' = r.out
            /\ UNCHANGED <<new_args, refs, retain_args>>

Next ==
    \/ Data
    \/ Retain
    \/ Mark
    \/ ConfigureWasi
    \/ Hold
    \/ Take
    \/ TakeLastError
    \/ WasiCtxMut
    \/ HandleWasmError

Spec == Init /\ [][Next]_vars

(* ---------------------------- properties ------------------------------- *)

\* the step just taken was handle_wasm_error with a context that could be obtained
HandledWithContext == last_op' = "handle_wasm_error" /\ last_args'[1].valid

\* the payload Store.new was given: the optional argument, nil when omitted
PayloadGiven == IF Len(new_args) >= 2 THEN new_args[2] ELSE QNIL

\* s is a prefix of t
IsPrefix(s, t) == Len(s) <= Len(t) /\ SubSeq(t, 1, Len(s)) = s

\* the set of elements of a sequence
Range(s) == {s[i] : i \in DOMAIN s}

\* C1: whenever handle_wasm_error runs with a valid context while a host
\* exception E is pending, it returns the error of exactly E, whatever the
\* low-level error is (exit, trap, both or neither).
C1_HostExceptionTakesPrecedence ==
    [][(HandledWithContext /\ inner.host_exception.some)
        => last_out' = [kind |-> "exception", exc |-> inner.host_exception.val.boxed]]_vars

\* C1 witness: a call with a trap in the low-level error returned host exception 2
C1_Witness ==
    /\ last_op = "handle_wasm_error"
    /\ last_args[1].valid
    /\ last_args[2].trap.some
    /\ last_out = [kind |-> "exception", exc |-> 2]

\* C2: a take right after hold(e) returns e whatever was held before (last
\* write wins), every take leaves the slot empty, and a take that follows a
\* take with no hold in between returns none.
C2_SingleSlotLastWriteWins ==
    [][/\ (last_op = "hold" /\ last_op' = "take") => last_out' = Some(last_args[1])
       /\ (last_op = "take" /\ last_op' = "take") => last_out' = None
       /\ last_op' = "take" => inner'.host_exception = None
       /\ last_op' = "hold" => inner'.host_exception = Some([boxed |-> last_args'[1]])]_vars

\* C2 witness: a take returned exception 2 and the slot is empty
C2_Witness ==
    /\ last_op = "take"
    /\ last_out = Some(2)
    /\ ~inner.host_exception.some

\* C3: with a valid context and no pending host exception, a low-level error
\* that is a process-exit request with code c yields the exit error carrying c,
\* also when the error chain holds a trap as well.
C3_ExitCarriesCode ==
    [][(HandledWithContext /\ ~inner.host_exception.some /\ last_args'[2].exit.some)
        => last_out' = [kind |-> "exit", code |-> last_args'[2].exit.val]]_vars

\* C3 witness: an exit request with code 7 in a chain that also holds a trap
\* was reported as the exit error with 7
C3_Witness ==
    /\ last_op = "handle_wasm_error"
    /\ last_args[2].exit = Some(7)
    /\ last_args[2].trap.some
    /\ last_out = [kind |-> "exit", code |-> 7]

\* C4: with a valid context, no pending host exception and no exit request,
\* the result is the trap error when the low-level error is a trap and
\* otherwise the generic error carrying the low-level error's text.
C4_TrapElseGeneric ==
    [][(HandledWithContext /\ ~inner.host_exception.some /\ ~last_args'[2].exit.some)
        => last_out' = IF last_args'[2].trap.some
                      THEN [kind |-> "trap", trap |-> last_args'[2].trap.val]
                      ELSE [kind |-> "generic", msg |-> last_args'[2].desc]]_vars

\* C4 witness: a plain error was reported as the generic error with its text
C4_Witness ==
    /\ last_op = "handle_wasm_error"
    /\ last_args[1].valid
    /\ last_out = [kind |-> "generic", msg |-> "unknown import"]

\* C5: in every reachable state the store's payload is the one given to new
\* (nil when omitted), and data() returns it.
C5_DataIsPayload ==
    /\ inner.user_data = PayloadGiven
    /\ last_op = "data" => last_out = PayloadGiven

\* C5 witness: data() returned payload 2 on a store that has retained values, a
\* WASI context and a pending host exception
C5_Witness ==
    /\ last_op = "data"
    /\ last_out = 2
    /\ Len(refs) > 1
    /\ inner.wasi.some
    /\ inner.host_exception.some

\* C6: has_wasi_ctx() is false right after new, becomes true only by a
\* configure_wasi call that returns Ok, is true after every such call, and
\* never goes back to false.
C6_WasiCtxPresence ==
    /\ ~inner.wasi.some
    /\ [][/\ (~inner.wasi.some /\ inner'.wasi.some)
              => (last_op' = "configure_wasi" /\ last_out'.ok)
          /\ (last_op' = "configure_wasi" /\ last_out'.ok) => inner'.wasi.some
          /\ inner.wasi.some => inner'.wasi.some]_vars

\* C6 witness: the context is still present after a later error classification
C6_Witness ==
    /\ inner.wasi.some
    /\ last_op = "handle_wasm_error"

\* C7: a configure_wasi call whose builder fails returns the builder's error
\* and leaves the StoreData, the wasi field included, as it was.
C7_FailedBuildLeavesWasi ==
    [][(last_op' = "configure_wasi" /\ last_args'[2].fails)
        => /\ last_out' = [ok |-> FALSE,
                          err |-> [kind |-> "build", builder |-> last_args'[2].id]]
           /\ inner' = inner]_vars

\* C7 witness: a failed configuration on a valid store that keeps the context
\* installed earlier
C7_Witness ==
    /\ last_op = "configure_wasi"
    /\ last_args[1]
    /\ last_args[2].fails
    /\ ~last_out.ok
    /\ inner.wasi.some

\* C8 as stated: a traversal after n retain calls with distinct values visits
\* exactly those n values.
C8_MarkVisitsOnlyRetained ==
    (last_op = "mark" /\ Cardinality(Range(retain_args)) = Len(retain_args))
        => /\ Len(last_out) = Len(retain_args)
           /\ Range(last_out) = Range(retain_args)

\* C8 amended: a traversal visits the payload given at creation (nil when
\* omitted) first and then exactly the values passed to retain, in call order.
C8_MarkVisitsPayloadAndRetained ==
    last_op = "mark" => last_out = <<PayloadGiven>> \o retain_args

\* C8 witness: a traversal after two retain calls with distinct values, both
\* different from the payload
C8_Witness ==
    /\ last_op = "mark"
    /\ Len(retain_args) = 2
    /\ Cardinality(Range(retain_args) \cup {inner.user_data}) = 3

\* C9: the payload is in the retained list in every reachable state, and every
\* traversal visits the value data() returns.
C9_PayloadRetained ==
    /\ \E i \in DOMAIN refs : refs[i] = inner.user_data
    /\ last_op = "mark" => \E i \in DOMAIN last_out : last_out[i] = inner.user_data

\* C9 witness: a traversal of a store with payload 2 in which no retain call
\* passed 2
C9_Witness ==
    /\ last_op = "mark"
    /\ inner.user_data = 2
    /\ Len(retain_args) = 2
    /\ 2 \notin Range(retain_args)

\* C10: every step leaves the retained list as a prefix of the new one.
C10_RefsOnlyGrow == [][IsPrefix(refs, refs')]_vars

\* C10 witness: the list grew to three values and a later operation ran
C10_Witness ==
    /\ Len(refs) = 3
    /\ refs[1] # refs[2]
    /\ last_op = "handle_wasm_error"

\* the call just made returned a pending host exception to its caller
ReturnedHostException ==
    \/ last_op = "handle_wasm_error" /\ last_out.kind = "exception"
    \/ last_op \in {"take", "take_last_error"} /\ last_out.some

\* C11 as stated: the retained list is never longer than the number of
\* distinct values attached to the store (the payload and the values passed
\* to retain).
C11_RefsBoundedByDistinct ==
    Len(refs) <= Cardinality({PayloadGiven} \cup Range(retain_args))

\* C11 amended: the retained list holds one entry for the payload and one per
\* retain call, repeated values included, so its length is one more than the
\* number of retain calls.
C11_RefsCountCalls == Len(refs) = 1 + Len(retain_args)

\* C11 witness: the payload value was passed to retain twice more and the list
\* holds it three times
C11_Witness ==
    /\ Len(refs) = 3
    /\ Cardinality(Range(refs)) = 1
    /\ Len(retain_args) = 2

\* C12: wasi_ctx_mut() panics and yields no context when no WASI context is
\* installed, and yields the installed context otherwise.
C12_WasiCtxMutFailsFast ==
    last_op = "wasi_ctx_mut"
        => IF inner.wasi.some
           THEN last_out = [panic |-> FALSE, ctx |-> inner.wasi.val]
           ELSE last_out.panic /\ "ctx" \notin DOMAIN last_out

\* C12 witness: the call panicked on a store that was never configured
C12_Witness ==
    /\ last_op = "wasi_ctx_mut"
    /\ ~inner.wasi.some
    /\ last_out.panic

\* C13: handle_wasm_error with a context that cannot be obtained returns the
\* access error of its wrapper, whatever the low-level error, and changes
\* nothing in the store: a pending host exception stays pending.
C13_InvalidContextReturnsAccessError ==
    [][(last_op' = "handle_wasm_error" /\ ~last_args'[1].valid)
        => /\ last_out' = [kind |-> "access", variant |-> last_args'[1].variant]
           /\ inner' = inner
           /\ refs' = refs]_vars

\* C13 witness: the access error of an invalid Caller was returned for an exit
\* request while a host exception is still pending
C13_Witness ==
    /\ last_op = "handle_wasm_error"
    /\ last_args[1] = [variant |-> "Caller", valid |-> FALSE]
    /\ last_args[2].exit.some
    /\ last_out.kind = "access"
    /\ inner.host_exception.some

\* C14: a successful configure_wasi on a store that already has a context
\* installs the context built from the new builder in its place, and
\* has_wasi_ctx() is true afterwards.
C14_ReconfigureOverwrites ==
    [][(last_op' = "configure_wasi" /\ last_out'.ok /\ inner.wasi.some)
        => inner'.wasi = [some |-> TRUE, val |-> [ctx_of |-> last_args'[2].id]]]_vars

\* C14 witness: builder 2 was installed by a successful call
C14_Witness ==
    /\ last_op = "configure_wasi"
    /\ last_out.ok
    /\ last_args[2].id = 2
    /\ inner.wasi = [some |-> TRUE, val |-> [ctx_of |-> 2]]

\* C15: a call that returns a host exception leaves the slot empty, an empty
\* slot is filled only by hold, and a handle_wasm_error (valid context) that
\* directly follows such a call reports the exit, trap or generic error.
C15_HostExceptionReportedOnce ==
    [][/\ ReturnedHostException' => ~inner'.host_exception.some
       /\ (~inner.host_exception.some /\ inner'.host_exception.some) => last_op' = "hold"
       /\ (ReturnedHostException /\ last_op' = "handle_wasm_error" /\ last_args'[1].valid)
            => last_out'.kind \in {"exit", "trap", "generic"}]_vars

\* C15 witness: handle_wasm_error returned host exception 1 and emptied the slot
C15_Witness ==
    /\ last_op = "handle_wasm_error"
    /\ last_out = [kind |-> "exception", exc |-> 1]
    /\ ~inner.host_exception.some

\* C16: handle_wasm_error leaves the payload, the WASI context and the
\* retained list as they were; the slot is either untouched or emptied.
C16_HandleWasmErrorFrame ==
    [][last_op' = "handle_wasm_error"
        => /\ inner'.user_data = inner.user_data
           /\ inner'.wasi = inner.wasi
           /\ refs' = refs
           /\ inner'.host_exception \in {inner.host_exception, [some |-> FALSE]}]_vars

\* C16 witness: a Caller-backed call reported an exit on a store with a payload,
\* a WASI context and retained values
C16_Witness ==
    /\ last_op = "handle_wasm_error"
    /\ last_args[1] = [variant |-> "Caller", valid |-> TRUE]
    /\ last_out.kind = "exit"
    /\ inner.user_data = 2
    /\ inner.wasi.some
    /\ Len(refs) = 3

====
